---- MODULE Spec2Model ----
(***************************************************************************)
(* Model of codex-cli/scripts/install_native_deps.py: the two orchestrators *)
(* fetch_rg and install_codex_binaries, the thread pool they drive, the     *)
(* single-target installers _fetch_single_rg / _install_single_codex_binary *)
(* and extract_archive, over an abstract filesystem.                        *)
(*                                                                         *)
(* One behaviour is one call of one orchestrator.  The main thread and the  *)
(* pool's workers interleave at the granularity of one filesystem or        *)
(* network operation per step.                                              *)
(***************************************************************************)
EXTENDS Integers, Sequences, FiniteSets, TLC

\* ---------------------------------------------------------------- bounds
\* Longest target list passed to an orchestrator.
MaxTargets == 2
\* Largest value os.cpu_count() returns (0 stands for None / unknown).
MaxCpu == 2
\* How many targets may lack their descriptor (staged archive, manifest key).
MaxMissing == 1
\* How many operations of one call the environment lets fail (a download, a
\* decompression, an archive read, a chmod).
MaxFaults == 1

\* ------------------------------------------------------------- constants
\* Python's None, where a string is expected.
None == "<None>"

Min(a, b) == IF a <= b THEN a ELSE b
Max(a, b) == IF a >= b THEN a ELSE b

\* The table of line 32; RG_TARGET_TO_PLATFORM is the dict built from it.
RG_TARGET_PLATFORM_PAIRS ==
    << <<"x86_64-unknown-linux-musl", "linux-x86_64">>,
       <<"aarch64-unknown-linux-musl", "linux-aarch64">>,
       <<"x86_64-apple-darwin", "macos-x86_64">>,
       <<"aarch64-apple-darwin", "macos-aarch64">>,
       <<"x86_64-pc-windows-msvc", "windows-x86_64">>,
       <<"aarch64-pc-windows-msvc", "windows-aarch64">> >>

\* RG_TARGET_TO_PLATFORM.get(target): the platform key, or None.
RG_TARGET_TO_PLATFORM(target) ==
    LET hits == {k \in 1..Len(RG_TARGET_PLATFORM_PAIRS) :
                    RG_TARGET_PLATFORM_PAIRS[k][1] = target}
    IN IF hits = {} THEN None
       ELSE RG_TARGET_PLATFORM_PAIRS[CHOOSE k \in hits : TRUE][2]

\* The targets the inputs are drawn from: one per operating system class.
InputTargets ==
    {"x86_64-unknown-linux-musl", "aarch64-apple-darwin", "x86_64-pc-windows-msvc"}

\* "windows" in target (lines 194, 198, 204), over the names the model uses.
ContainsWindows(target) ==
    target \in {"x86_64-pc-windows-msvc", "aarch64-pc-windows-msvc"}

\* platform_key.startswith("win") (line 227).
StartsWithWin(platform_key) ==
    platform_key \in {"windows-x86_64", "windows-aarch64"}

\* The DotSlash manifest the multi-target runs read: one entry per platform,
\* one archive format each, two providers where a fallback is listed.
ManifestEntries ==
    [k \in {"linux-x86_64", "macos-aarch64", "windows-x86_64"} |->
        CASE k = "linux-x86_64" ->
                [providers |-> <<"https://a/rg-linux.tar.gz", "https://b/rg-linux.tar.gz">>,
                 format |-> "tar.gz", path |-> "ripgrep/rg"]
          [] k = "macos-aarch64" ->
                [providers |-> <<"https://a/rg-macos.zst">>,
                 format |-> "zst", path |-> None]
          [] OTHER ->
                [providers |-> <<"https://a/rg-windows.zip", "https://b/rg-windows.zip">>,
                 format |-> "zip", path |-> "ripgrep/rg.exe"]]

\* ------------------------------------------------------------ filesystem
VendorDir == <<"vendor">>

\* A path's content: data is "absent", "old" (there before the call),
\* "partial" or "full"; by is the unit that wrote it (0: nobody in this call).
Absent == [data |-> "absent", by |-> 0, exec |-> FALSE]

NoError == [kind |-> "none", unit |-> 0, names |-> "none"]

Err(kind, i, names) == [kind |-> kind, unit |-> i, names |-> names]

VARIABLES
    mode,            \* "rg": fetch_rg is called; "codex": install_codex_binaries;
                     \* "direct": extract_archive is called on its own
    targets,         \* the targets argument, as a list
    cpu,             \* os.cpu_count(); 0 stands for None
    manifestExists,  \* manifest_path.exists()
    platforms,       \* manifest.get("platforms", {})
    staged,          \* targets whose pre-staged archive exists in artifacts_dir
    dirs0,           \* the directories that existed when the call was made
    files0,          \* path -> content when the call was made
    pc,              \* main thread: call, submit, collect, exit, returned, raised
    maxWorkers,      \* max_workers of the pool
    submitted,       \* how many units executor.submit has queued
    results,         \* the results dict: target -> destination
    consumed,        \* the futures as_completed has yielded, in that order
    leftAtRaise,     \* the units not yet settled when an exception left the loop
    raised,          \* the exception leaving the orchestrator, or NoError
    returned,        \* the list the orchestrator returned
    upc,             \* each unit's position
    uerr,            \* each unit's exception (its future's), or NoError
    uret,            \* each unit's return value (its future's), or <<>>
    downloads,       \* each unit's download attempts: provider indexes
    faults,          \* operations the environment has let fail so far
    dirs,            \* directories that exist under the install root
    files,           \* path -> content
    touched          \* each unit's written or deleted paths

envVars == <<mode, targets, cpu, manifestExists, platforms, staged, dirs0, files0>>
mainVars == <<pc, maxWorkers, submitted, results, consumed, leftAtRaise, raised,
             returned>>
unitVars == <<upc, uerr, uret, downloads, faults>>
fsVars == <<dirs, files, touched>>
vars == <<envVars, mainVars, unitVars, fsVars>>

Units == 1..Len(targets)

\* ---------------------------------------------------------- install layout
\* role: "codex" (line 191) or "path" (line 224).
RoleFor(m) == IF m = "codex" THEN "codex" ELSE "path"

\* Naming test: line 194 for codex, lines 227-228 for rg.
IsWindowsName(m, target) ==
    IF m = "codex" THEN ContainsWindows(target)
    ELSE StartsWithWin(RG_TARGET_TO_PLATFORM(target))

\* A permission test on the prefix of the target triple itself.
IsWindowsPermByPrefix(m, target) == StartsWithWin(target)

\* Permission test: line 198 for codex, line 240 for rg.
IsWindowsPerm(m, target) ==
    IF m = "codex" THEN ContainsWindows(target)
    ELSE StartsWithWin(RG_TARGET_TO_PLATFORM(target))

\* binary_name (lines 194, 228).
BinaryNameFor(m, target) ==
    IF m = "codex"
    THEN (IF IsWindowsName(m, target) THEN "codex.exe" ELSE "codex")
    ELSE (IF IsWindowsName(m, target) THEN "rg.exe" ELSE "rg")

\* dest_dir (lines 191, 224) and dest (lines 195, 229).
DestDirFor(m, target) == <<"vendor", target, RoleFor(m)>>
DestFor(m, target) == <<"vendor", target, RoleFor(m), BinaryNameFor(m, target)>>

\* Where the decompressed or extracted file lands before it is moved:
\* archive_path.parent / dest.name (line 261) or / archive_member (line 279).
\* For codex that is inside artifacts_dir/<target>; for rg inside the unit's
\* own TemporaryDirectory (line 231), which no other unit can name.
\* A scratch location under one fixed temporary directory for all rg units.
ScratchShared(m, ts, i) ==
    IF m = "codex"
    THEN <<"artifacts", ts[i], BinaryNameFor(m, ts[i])>>
    ELSE <<"tmp", 0>>

ScratchFor(m, ts, i) ==
    IF m = "codex"
    THEN <<"artifacts", ts[i], BinaryNameFor(m, ts[i])>>
    ELSE <<"tmp", i>>

DestDir(target) == DestDirFor(mode, target)
Dest(target) == DestFor(mode, target)
Scratch(i) == ScratchFor(mode, targets, i)

\* Every path a call with these arguments can read or write.
PathsOf(m, ts) ==
    {DestFor(m, ts[i]) : i \in 1..Len(ts)} \cup {ScratchFor(m, ts, i) : i \in 1..Len(ts)}

\* archive_format and archive_member of unit i's extract_archive call:
\* ("zst", None) at line 197; the manifest entry's at lines 221-222, 238.
EntryOf(i) == platforms[RG_TARGET_TO_PLATFORM(targets[i])]
FormatOf(i) == IF mode = "codex" THEN "zst" ELSE EntryOf(i).format
MemberOf(i) == IF mode = "codex" THEN None ELSE EntryOf(i).path

\* ------------------------------------------------------------------ Init
SeqsUpTo(S, n) == UNION {[1..k -> S] : k \in 0..n}

\* The manifest entries a single-target call may meet.
EntryShapes ==
    [providers : {<<>>, <<"https://a/rg">>, <<"https://a/rg", "https://b/rg">>},
     format : {"zst", "tar.gz", "zip", "7z"},
     path : {None, "", "ripgrep/rg"}]

\* A call on up to MaxTargets targets into an empty install root.
InitMulti ==
    /\ targets \in SeqsUpTo(InputTargets, MaxTargets)
    /\ cpu \in 0..MaxCpu
    /\ \E missing \in SUBSET {targets[i] : i \in 1..Len(targets)} :
          /\ Cardinality(missing) <= MaxMissing
          /\ IF mode = "codex"
             THEN /\ staged = InputTargets \ missing
                  /\ manifestExists = TRUE
                  /\ platforms = ManifestEntries
             ELSE /\ staged = {}
                  /\ \/ /\ manifestExists = TRUE
                        /\ platforms =
                             [k \in DOMAIN ManifestEntries \
                                      {RG_TARGET_TO_PLATFORM(t) : t \in missing} |->
                                 ManifestEntries[k]]
                     \/ /\ manifestExists = FALSE
                        /\ missing = {}
                        /\ platforms = ManifestEntries
    /\ dirs = {}
    /\ files = [p \in PathsOf(mode, targets) |-> Absent]

\* A call on one target, with any manifest entry (or with its archive
\* staged or not), into an install root that is empty or holds the binary of
\* an earlier install.
InitSingle ==
    /\ \E t \in InputTargets : targets = <<t>>
    /\ cpu = 1
    /\ manifestExists = TRUE
    /\ IF mode = "codex"
       THEN /\ staged \in {InputTargets, InputTargets \ {targets[1]}}
            /\ platforms = ManifestEntries
       ELSE /\ staged = {}
            /\ \E e \in EntryShapes : platforms = [k \in DOMAIN ManifestEntries |-> e]
    /\ \/ /\ dirs = {}
          /\ files = [p \in PathsOf(mode, targets) |-> Absent]
       \/ /\ dirs = {VendorDir, <<"vendor", targets[1]>>, DestDirFor(mode, targets[1])}
          /\ files = [p \in PathsOf(mode, targets) |->
                        IF p = DestFor(mode, targets[1])
                        THEN [data |-> "old", by |-> 0,
                              exec |-> ~IsWindowsPerm(mode, targets[1])]
                        ELSE Absent]

Init ==
    /\ mode \in {"rg", "codex"}
    /\ InitMulti \/ InitSingle
    /\ dirs0 = dirs
    /\ files0 = files
    /\ pc = "call"
    /\ maxWorkers = 0
    /\ submitted = 0
    /\ results = [t \in {} |-> <<>>]
    /\ consumed = <<>>
    /\ leftAtRaise = {}
    /\ raised = NoError
    /\ returned = <<>>
    /\ upc = [i \in Units |-> "unsubmitted"]
    /\ uerr = [i \in Units |-> NoError]
    /\ uret = [i \in Units |-> <<>>]
    /\ downloads = [i \in Units |-> <<>>]
    /\ faults = 0
    /\ touched = [i \in Units |-> {}]

\* ------------------------------------------------------------ the pool
\* Unit positions: not yet submitted, in the work queue, running (one name
\* per operation about to be done), settled.
Running == {i \in Units : upc[i] \notin {"unsubmitted", "queued", "ok", "failed"}}
Queued == {i \in Units : upc[i] = "queued"}
Settled == {i \in Units : upc[i] \in {"ok", "failed"}}

\* A pool as wide as the target list, whatever the host.
MaxWorkersIgnoringCpu(n, p) == n

\* max_workers (lines 125, 169): min(len, max(1, os.cpu_count() or 1)).
MaxWorkers(n, p) == Min(n, Max(1, IF p = 0 THEN 1 ELSE p))

\* Leaving the with block without joining the workers: shutdown(wait=False).
PoolNotJoined == TRUE

\* What leaving the with block waits for (lines 127, 171): __exit__ calls
\* shutdown(wait=True), which joins the workers, and they drain the queue.
PoolJoined == \A i \in Units : upc[i] \in {"unsubmitted", "ok", "failed"}

\* The destinations in the order the futures were yielded.
ResultListInCompletionOrder == [k \in 1..Len(consumed) |-> uret[consumed[k]]]

\* [results[target] for target in targets] (lines 144, 181).
ResultList == [i \in 1..Len(targets) |-> results[targets[i]]]

\* A loop that drops a failed future's exception.
FutureNeverRaises(i) == FALSE

\* Whether `future.result()` raises (lines 142, 179), and what: a failed
\* future re-raises its unit's exception.
FutureRaises(i) == upc[i] = "failed"
FutureError(i) == uerr[i]

\* The futures as_completed has not yielded yet and can yield now.
Yieldable == Settled \ {consumed[k] : k \in 1..Len(consumed)}

\* ---------------------------------------------------------- main thread
\* fetch_rg, lines 97-125: everything before the pool is created.
\* (targets is None, line 97, is not drawn: the default list is longer than
\* MaxTargets.  _load_manifest is taken to parse an existing manifest.)
FirstUnresolved ==
    LET bad == {i \in Units :
                   \/ RG_TARGET_TO_PLATFORM(targets[i]) = None
                   \/ RG_TARGET_TO_PLATFORM(targets[i]) \notin DOMAIN platforms}
    IN IF bad = {} THEN 0 ELSE CHOOSE i \in bad : \A j \in bad : i <= j

FetchRgSetup ==
    /\ mode = "rg"
    /\ pc = "call"
    /\ IF ~manifestExists
       THEN /\ raised' = Err("ManifestNotFound", 0, "none")
            /\ pc' = "raised"
            /\ UNCHANGED <<dirs, maxWorkers, returned>>
       ELSE /\ dirs' = dirs \cup {VendorDir}
            /\ IF targets = <<>>
               THEN /\ pc' = "returned"
                    /\ returned' = <<>>
                    /\ UNCHANGED <<raised, maxWorkers>>
               ELSE IF FirstUnresolved # 0
               THEN /\ raised' =
                         (IF RG_TARGET_TO_PLATFORM(targets[FirstUnresolved]) = None
                          THEN Err("UnsupportedTarget", 0, "target")
                          ELSE Err("PlatformNotFound", 0, "platform"))
                    /\ pc' = "raised"
                    /\ UNCHANGED <<maxWorkers, returned>>
               ELSE /\ maxWorkers' = MaxWorkers(Len(targets), cpu)
                    /\ pc' = "submit"
                    /\ UNCHANGED <<raised, returned>>
    /\ UNCHANGED <<envVars, submitted, results, consumed, leftAtRaise, unitVars,
                   files, touched>>

\* install_codex_binaries, lines 164-169.
InstallCodexSetup ==
    /\ mode = "codex"
    /\ pc = "call"
    /\ IF targets = <<>>
       THEN /\ pc' = "returned"
            /\ returned' = <<>>
            /\ UNCHANGED maxWorkers
       ELSE /\ maxWorkers' = MaxWorkers(Len(targets), cpu)
            /\ pc' = "submit"
            /\ UNCHANGED returned
    /\ UNCHANGED <<envVars, submitted, results, consumed, leftAtRaise, raised,
                   unitVars, fsVars>>

\* The dict comprehension of lines 128-138 and 172-175: one executor.submit
\* per target, in list order.  The main thread touches nothing else while it
\* submits, so the submits are taken together; the queue keeps their order.
SubmitAll ==
    /\ pc = "submit"
    /\ upc' = [i \in Units |-> "queued"]
    /\ submitted' = Len(targets)
    /\ pc' = "collect"
    /\ UNCHANGED <<envVars, maxWorkers, results, consumed, leftAtRaise, raised, returned,
                   uerr, uret, downloads, faults, fsVars>>

\* One iteration of `for future in as_completed(future_map)` (lines 140-142,
\* 177-179): a settled future not yet yielded; its result is stored under its
\* target, or its exception propagates out of the with block.
Collect ==
    /\ pc = "collect"
    /\ \E i \in Yieldable :
          /\ consumed' = Append(consumed, i)
          /\ IF FutureRaises(i)
             THEN /\ raised' = FutureError(i)
                  /\ leftAtRaise' = Units \ Settled
                  /\ pc' = "exit"
                  /\ UNCHANGED results
             ELSE /\ results' = [t \in DOMAIN results \cup {targets[i]} |->
                                    IF t = targets[i] THEN uret[i] ELSE results[t]]
                  /\ UNCHANGED <<pc, raised, leftAtRaise>>
    /\ UNCHANGED <<envVars, maxWorkers, submitted, returned, unitVars, fsVars>>

\* as_completed is exhausted: the loop ends and the with block is left.
CollectDone ==
    /\ pc = "collect"
    /\ Len(consumed) = Len(targets)
    /\ pc' = "exit"
    /\ UNCHANGED <<envVars, maxWorkers, submitted, results, consumed, leftAtRaise,
                   raised, returned, unitVars, fsVars>>

\* ThreadPoolExecutor.__exit__ (lines 127, 171), then line 144 / 181 or the
\* pending exception.
ExitPool ==
    /\ pc = "exit"
    /\ PoolJoined
    /\ IF raised = NoError
       THEN /\ returned' = ResultList
            /\ pc' = "returned"
       ELSE /\ pc' = "raised"
            /\ UNCHANGED returned
    /\ UNCHANGED <<envVars, maxWorkers, submitted, results, consumed, leftAtRaise,
                   raised, unitVars, fsVars>>

\* A worker thread takes the next work item off the queue (FIFO).  The pool
\* starts a thread per submit until max_workers exist (lines 127, 171), so a
\* thread is free exactly when fewer than max_workers units are running.
Start(i) ==
    /\ upc[i] = "queued"
    /\ \A j \in 1..(i - 1) : upc[j] # "queued"
    /\ Cardinality(Running) < maxWorkers
    /\ upc' = [upc EXCEPT ![i] = "begin"]
    /\ UNCHANGED <<envVars, mainVars, uerr, uret, downloads, faults, fsVars>>

\* ------------------------------------------------------------- the units
\* The operations the environment may let fail are the download, zstd, the
\* reading of a tar or zip archive, the streaming of a zip member and chmod.
\* mkdir, unlink and the rename done by shutil.move are taken to succeed
\* whenever their source exists.
\* A unit ends by raising: its future holds the exception.
Fails(i, kind, names) ==
    /\ upc' = [upc EXCEPT ![i] = "failed"]
    /\ uerr' = [uerr EXCEPT ![i] = Err(kind, i, names)]
    /\ UNCHANGED <<uret, faults>>

\* The same, where the failure is the environment's: a network error, a
\* corrupt or incomplete archive, a refused chmod.
Faults(i, kind, names) ==
    /\ faults < MaxFaults
    /\ faults' = faults + 1
    /\ upc' = [upc EXCEPT ![i] = "failed"]
    /\ uerr' = [uerr EXCEPT ![i] = Err(kind, i, names)]
    /\ UNCHANGED uret

Goes(i, next) ==
    /\ upc' = [upc EXCEPT ![i] = next]
    /\ UNCHANGED <<uerr, uret, faults>>

Writes(i, path, content) ==
    /\ files' = [files EXCEPT ![path] = content]
    /\ touched' = [touched EXCEPT ![i] = @ \cup {path}]

\* What is left in the scratch location when a unit's extraction step raises:
\* the TemporaryDirectory of _fetch_single_rg is removed with its content
\* (line 231); the artifacts directory, or a direct caller's directory, is not.
ScratchAfterError(i, content) == IF mode = "rg" THEN Absent ELSE content

\* dest_dir.mkdir(parents=True, exist_ok=True) (lines 192, 225, 258).
MkdirParents(target) ==
    dirs \cup {VendorDir, <<"vendor", target>>, DestDir(target)}

\* _install_single_codex_binary, lines 185-189.
CodexLookup(i) ==
    /\ mode = "codex"
    /\ upc[i] = "begin"
    /\ IF targets[i] \in staged
       THEN Goes(i, "mkdir")
       ELSE Fails(i, "MissingArtifact", "target")
    /\ UNCHANGED <<envVars, mainVars, downloads, fsVars>>

\* _install_single_codex_binary, lines 191-192.
Mkdir(i) ==
    /\ mode = "codex"
    /\ upc[i] = "mkdir"
    /\ dirs' = MkdirParents(targets[i])
    /\ Goes(i, "unlink")
    /\ UNCHANGED <<envVars, mainVars, downloads, files, touched>>

\* An entry step that removes dest as soon as it has computed it, before the
\* download.
RgEntryUnlinksFirst(i) ==
    /\ mode = "rg"
    /\ upc[i] = "begin"
    /\ IF EntryOf(i).providers = <<>>
       THEN /\ Fails(i, "NoProviders", "platform")
            /\ UNCHANGED <<dirs, files, touched>>
       ELSE /\ dirs' = MkdirParents(targets[i])
            /\ Writes(i, Dest(targets[i]), Absent)
            /\ Goes(i, "download")
    /\ UNCHANGED <<envVars, mainVars, downloads>>

\* _fetch_single_rg, lines 216-229.
RgEntry(i) ==
    /\ mode = "rg"
    /\ upc[i] = "begin"
    /\ IF EntryOf(i).providers = <<>>
       THEN /\ Fails(i, "NoProviders", "platform")
            /\ UNCHANGED dirs
       ELSE /\ dirs' = MkdirParents(targets[i])
            /\ Goes(i, "download")
    /\ UNCHANGED <<envVars, mainVars, downloads, files, touched>>

\* A download that falls back to the next provider when one fails.
DownloadWithFallback(i) ==
    /\ mode = "rg"
    /\ upc[i] = "download"
    /\ LET k == Len(downloads[i]) + 1
       IN /\ downloads' = [downloads EXCEPT ![i] = Append(@, k)]
          /\ \/ Goes(i, "unlink")
             \/ /\ k < Len(EntryOf(i).providers)
                /\ faults < MaxFaults
                /\ faults' = faults + 1
                /\ UNCHANGED <<upc, uerr, uret>>
             \/ /\ k >= Len(EntryOf(i).providers)
                /\ Faults(i, "DownloadError", "none")
    /\ UNCHANGED <<envVars, mainVars, fsVars>>

\* _fetch_single_rg, lines 231-235, and _download_file: one urlopen of
\* providers[0]["url"], which the network lets succeed or fail.
Download(i) ==
    /\ mode = "rg"
    /\ upc[i] = "download"
    /\ downloads' = [downloads EXCEPT ![i] = Append(@, 1)]
    /\ \/ Goes(i, "unlink")
       \/ Faults(i, "DownloadError", "none")
    /\ UNCHANGED <<envVars, mainVars, fsVars>>

\* An unlink without missing_ok: it raises when there is nothing to remove.
UnlinkMustExist(i) ==
    /\ upc[i] = "unlink"
    /\ IF files[Dest(targets[i])].data = "absent"
       THEN /\ Fails(i, "FileNotFound", "none")
            /\ UNCHANGED <<files, touched>>
       ELSE /\ Writes(i, Dest(targets[i]), Absent)
            /\ Goes(i, "extract")
    /\ UNCHANGED <<envVars, mainVars, downloads, dirs>>

\* dest.unlink(missing_ok=True), lines 196 and 237.
Unlink(i) ==
    /\ upc[i] = "unlink"
    /\ Writes(i, Dest(targets[i]), Absent)
    /\ Goes(i, "extract")
    /\ UNCHANGED <<envVars, mainVars, downloads, dirs>>

\* A zst branch that looks at the member: it refuses one that is given.
ZstdRefusesMember(i) ==
    /\ upc[i] = "extract"
    /\ FormatOf(i) = "zst"
    /\ dirs' = MkdirParents(targets[i])
    /\ IF MemberOf(i) \notin {None, ""}
       THEN /\ Fails(i, "UnexpectedPath", "none")
            /\ UNCHANGED <<files, touched>>
       ELSE \/ /\ Writes(i, Scratch(i), [data |-> "full", by |-> i, exec |-> FALSE])
               /\ Goes(i, "move")
            \/ /\ Writes(i, Scratch(i),
                         ScratchAfterError(i, [data |-> "partial", by |-> i, exec |-> FALSE]))
               /\ Faults(i, "ZstdFailed", "none")
    /\ UNCHANGED <<envVars, mainVars, downloads>>

\* extract_archive, "zst", lines 258-264: zstd decompresses into the scratch
\* location; a bad archive makes it exit non-zero.
Zstd(i) ==
    /\ upc[i] = "extract"
    /\ FormatOf(i) = "zst"
    /\ dirs' = MkdirParents(targets[i])
    /\ \/ /\ Writes(i, Scratch(i), [data |-> "full", by |-> i, exec |-> FALSE])
          /\ Goes(i, "move")
       \/ /\ Writes(i, Scratch(i),
                    ScratchAfterError(i, [data |-> "partial", by |-> i, exec |-> FALSE]))
          /\ Faults(i, "ZstdFailed", "none")
    /\ UNCHANGED <<envVars, mainVars, downloads>>

\* extract_archive, "tar.gz", lines 268-278: the member is required, looked
\* up, and extracted beside the archive.
Tar(i) ==
    /\ upc[i] = "extract"
    /\ FormatOf(i) = "tar.gz"
    /\ dirs' = MkdirParents(targets[i])
    /\ IF MemberOf(i) \in {None, ""}
       THEN /\ Fails(i, "MissingPath", "none")
            /\ UNCHANGED <<files, touched>>
       ELSE \/ /\ Writes(i, Scratch(i), [data |-> "full", by |-> i, exec |-> FALSE])
               /\ Goes(i, "move")
            \/ /\ Faults(i, "MemberNotFound", "none")
               /\ UNCHANGED <<files, touched>>
            \/ /\ Faults(i, "BadArchive", "none")
               /\ UNCHANGED <<files, touched>>
    /\ UNCHANGED <<envVars, mainVars, downloads>>

\* shutil.move(scratch, dest), lines 265 and 280.
Move(i) ==
    /\ upc[i] = "move"
    /\ IF files[Scratch(i)].data = "absent"
       THEN /\ Fails(i, "FileNotFound", "none")
            /\ UNCHANGED <<files, touched>>
       ELSE /\ files' = [files EXCEPT ![Dest(targets[i])] = files[Scratch(i)],
                                      ![Scratch(i)] = Absent]
            /\ touched' = [touched EXCEPT ![i] = @ \cup {Dest(targets[i]), Scratch(i)}]
            /\ Goes(i, "chmod")
    /\ UNCHANGED <<envVars, mainVars, downloads, dirs>>

\* A zip branch that opens dest for writing before it looks the member up.
ZipOpenDestFirst(i) ==
    /\ upc[i] = "extract"
    /\ FormatOf(i) = "zip"
    /\ dirs' = MkdirParents(targets[i])
    /\ IF MemberOf(i) \in {None, ""}
       THEN /\ Fails(i, "MissingPath", "none")
            /\ UNCHANGED <<files, touched>>
       ELSE /\ Writes(i, Dest(targets[i]), [data |-> "partial", by |-> i, exec |-> FALSE])
            /\ \/ Goes(i, "zipwrite")
               \/ Faults(i, "MemberNotFound", "none")
               \/ Faults(i, "BadArchive", "none")
    /\ UNCHANGED <<envVars, mainVars, downloads>>

\* extract_archive, "zip", lines 283-288: the member is required; the archive
\* and the member are opened, then dest is opened for writing, which creates
\* it empty.
ZipOpen(i) ==
    /\ upc[i] = "extract"
    /\ FormatOf(i) = "zip"
    /\ dirs' = MkdirParents(targets[i])
    /\ IF MemberOf(i) \in {None, ""}
       THEN /\ Fails(i, "MissingPath", "none")
            /\ UNCHANGED <<files, touched>>
       ELSE \/ /\ Writes(i, Dest(targets[i]),
                         [data |-> "partial", by |-> i, exec |-> FALSE])
               /\ Goes(i, "zipwrite")
            \/ /\ Faults(i, "MemberNotFound", "none")
               /\ UNCHANGED <<files, touched>>
            \/ /\ Faults(i, "BadArchive", "none")
               /\ UNCHANGED <<files, touched>>
    /\ UNCHANGED <<envVars, mainVars, downloads>>

\* extract_archive, "zip", line 289: the member's bytes are streamed into
\* dest; a corrupt member raises after some of them were written.
ZipWrite(i) ==
    /\ upc[i] = "zipwrite"
    /\ \/ /\ Writes(i, Dest(targets[i]), [data |-> "full", by |-> i, exec |-> FALSE])
          /\ Goes(i, "chmod")
       \/ /\ Faults(i, "BadArchive", "none")
          /\ UNCHANGED <<files, touched>>
    /\ UNCHANGED <<envVars, mainVars, downloads, dirs>>

\* extract_archive, any other format tag, lines 258 and 296.
Unsupported(i) ==
    /\ upc[i] = "extract"
    /\ FormatOf(i) \notin {"zst", "tar.gz", "zip"}
    /\ dirs' = MkdirParents(targets[i])
    /\ Fails(i, "UnsupportedFormat", "none")
    /\ UNCHANGED <<envVars, mainVars, downloads, files, touched>>

\* Lines 198-200 and 240-243: chmod unless the target is Windows-class, then
\* return dest.
Chmod(i) ==
    /\ upc[i] = "chmod"
    /\ LET dest == Dest(targets[i])
           done == /\ upc' = [upc EXCEPT ![i] = "ok"]
                   /\ uret' = [uret EXCEPT ![i] = dest]
                   /\ UNCHANGED <<uerr, faults>>
       IN IF IsWindowsPerm(mode, targets[i])
          THEN /\ done
               /\ UNCHANGED <<files, touched>>
          ELSE IF files[dest].data = "absent"
          THEN /\ Fails(i, "FileNotFound", "none")
               /\ UNCHANGED <<files, touched>>
          ELSE \/ /\ Writes(i, dest, [files[dest] EXCEPT !.exec = TRUE])
                  /\ done
               \/ /\ Faults(i, "ChmodFailed", "none")
                  /\ UNCHANGED <<files, touched>>
    /\ UNCHANGED <<envVars, mainVars, downloads, dirs>>

\* One step of unit i: a worker picking it up, or its next operation.
UnitNext(i) ==
    \/ Start(i)
    \/ CodexLookup(i)
    \/ Mkdir(i)
    \/ RgEntry(i)
    \/ Download(i)
    \/ Unlink(i)
    \/ Zstd(i)
    \/ Tar(i)
    \/ Move(i)
    \/ ZipOpen(i)
    \/ ZipWrite(i)
    \/ Unsupported(i)
    \/ Chmod(i)

Next ==
    \/ FetchRgSetup
    \/ InstallCodexSetup
    \/ SubmitAll
    \/ Collect
    \/ CollectDone
    \/ ExitPool
    \/ \E i \in Units : UnitNext(i)

Spec == Init /\ [][Next]_vars

\* --------------------------------------------- extract_archive on its own
\* extract_archive(archive_path, archive_format, archive_member, dest) called
\* directly: the format and the member are any of EntryShapes' (held in
\* platforms, where FormatOf and MemberOf read them), dest is an install
\* destination whose parent directory exists or not and which holds an
\* earlier file or nothing. The call stands at line 258; position "chmod"
\* is the caller's again, so it means that extract_archive has returned.
InitExtract ==
    /\ mode = "direct"
    /\ \E t \in InputTargets : targets = <<t>>
    /\ cpu = 1
    /\ manifestExists = TRUE
    /\ staged = {}
    /\ \E e \in EntryShapes :
          /\ e.providers = <<"https://a/rg">>
          /\ platforms = [k \in DOMAIN ManifestEntries |-> e]
    /\ \/ /\ dirs = {}
          /\ files = [p \in PathsOf(mode, targets) |-> Absent]
       \/ /\ dirs = {VendorDir, <<"vendor", targets[1]>>, DestDirFor(mode, targets[1])}
          /\ \E old \in {Absent, [data |-> "old", by |-> 0, exec |-> FALSE]} :
                files = [p \in PathsOf(mode, targets) |->
                           IF p = DestFor(mode, targets[1]) THEN old ELSE Absent]
    /\ dirs0 = dirs
    /\ files0 = files
    /\ pc = "direct"
    /\ maxWorkers = 1
    /\ submitted = 1
    /\ results = [t \in {} |-> <<>>]
    /\ consumed = <<>>
    /\ leftAtRaise = {}
    /\ raised = NoError
    /\ returned = <<>>
    /\ upc = [i \in Units |-> "extract"]
    /\ uerr = [i \in Units |-> NoError]
    /\ uret = [i \in Units |-> <<>>]
    /\ downloads = [i \in Units |-> <<>>]
    /\ faults = 0
    /\ touched = [i \in Units |-> {}]

\* The steps of extract_archive, lines 258-296.
ExtractNext(i) ==
    \/ Zstd(i)
    \/ Tar(i)
    \/ Move(i)
    \/ ZipOpen(i)
    \/ ZipWrite(i)
    \/ Unsupported(i)

NextExtract == \E i \in Units : ExtractNext(i)

SpecExtract == InitExtract /\ [][NextExtract]_vars

\* ------------------------------------------------------------ properties
Terminated == pc \in {"returned", "raised"}
Distinct == \A i, j \in Units : targets[i] = targets[j] => i = j
Failed == {i \in Units : upc[i] = "failed"}

\* C1: with a non-empty target list of N targets and host parallelism P
\* (0: unknown), no more than min(N, max(1, P)) units run at the same time.
C1_ParallelismBound ==
    targets # <<>> =>
        Cardinality(Running) <= Min(Len(targets), Max(1, cpu))

\* Two targets, parallelism unknown: one unit runs, at the bound, and the
\* other waits in the queue.
C1_Witness ==
    /\ Len(targets) = 2
    /\ cpu = 0
    /\ Cardinality(Running) = 1
    /\ Queued # {}

\* C2: a unit's failure cancels or skips no other unit.  Once an exception
\* has left the collecting loop, every running unit can still take its next
\* step and every queued unit can start or waits only for a running unit or
\* for one queued before it; and the exception reaches the caller only when
\* every unit has settled, by returning its destination or by raising.
C2_FailureCancelsNothing ==
    /\ (pc = "exit" /\ raised # NoError) =>
          /\ \A i \in Running : ENABLED UnitNext(i)
          /\ \A i \in Queued :
                \/ ENABLED UnitNext(i)
                \/ Running # {}
                \/ \E j \in Queued : j < i
    /\ (pc = "raised" /\ raised.unit # 0) =>
          /\ Settled = Units
          /\ \A i \in Units : upc[i] = "ok" => uret[i] = Dest(targets[i])
          /\ \A i \in Units : upc[i] = "failed" => uerr[i].unit = i

\* The caller holds the exception of unit 1, and unit 2, which was still
\* queued or running when the exception left the loop, has been installed.
C2_Witness ==
    /\ pc = "raised"
    /\ raised.unit = 1
    /\ 2 \in leftAtRaise
    /\ upc[2] = "ok"
    /\ files[Dest(targets[2])].data = "full"

\* The units whose failure the exception that leaves the orchestrator
\* carries: it is one future's exception (lines 142, 179).
ReportedUnits == IF raised.unit = 0 THEN {} ELSE {raised.unit}

\* C3: when units fail, the error raised once all work has settled names
\* every failed target.
C3_ErrorNamesEveryFailure ==
    (pc = "raised" /\ raised.unit # 0) =>
        {targets[i] : i \in Failed} \subseteq {targets[i] : i \in ReportedUnits}

\* The one unit whose descriptor is broken: its pre-staged archive is missing
\* or its download failed, and every other unit succeeded.
BrokenOnly(b) ==
    /\ upc[b] = "failed"
    /\ uerr[b].kind \in {"MissingArtifact", "DownloadError"}
    /\ \A i \in Units \ {b} : upc[i] = "ok"

\* C4: with pairwise-distinct targets of which exactly one is broken, the
\* call yields the destinations of the N-1 other targets and one failure
\* tagged with the broken target.
C4_OneBrokenOthersYielded ==
    \A b \in Units :
       (Terminated /\ Distinct /\ Len(targets) >= 2 /\ BrokenOnly(b)) =>
          /\ {returned[k] : k \in 1..Len(returned)} =
                {Dest(targets[i]) : i \in Units \ {b}}
          /\ raised.unit = b
          /\ raised.names = "target"

\* What does hold of the install tree in that case: the N-1 other
\* destinations are complete, whatever the interleaving.
OthersInstalledOnDisk ==
    \A b \in Units :
       (Terminated /\ Distinct /\ BrokenOnly(b)) =>
          \A i \in Units \ {b} :
             /\ files[Dest(targets[i])].data = "full"
             /\ files[Dest(targets[i])].by = i

\* C5: the orchestrator returns normally only if every unit succeeded, and
\* then the list has one entry per requested target and every requested
\* target's destination is in it.
C5_ReturnsOnlyIfAllInstalled ==
    pc = "returned" =>
        /\ \A i \in Units : upc[i] = "ok"
        /\ Len(returned) = Len(targets)
        /\ \A i \in Units : \E k \in 1..Len(returned) : returned[k] = Dest(targets[i])

\* Two units have succeeded and the list of two destinations is returned.
C5_Witness ==
    /\ pc = "returned"
    /\ Len(targets) = 2
    /\ Len(returned) = 2
    /\ \A i \in Units : files[Dest(targets[i])].data = "full"

\* C6: the returned list follows the input order: its i-th entry is the
\* destination of the i-th input target, whatever order the units completed
\* in.
C6_InputOrder ==
    pc = "returned" =>
        \A i \in 1..Len(targets) :
            /\ i \in DOMAIN returned
            /\ returned[i] = Dest(targets[i])

\* The second unit's future was yielded before the first one's, the targets
\* differ, and the list is returned.
C6_Witness ==
    /\ pc = "returned"
    /\ consumed = <<2, 1>>
    /\ targets[1] # targets[2]
    /\ returned = <<Dest(targets[1]), Dest(targets[2])>>

\* The exceptions extract_archive raises (lines 262-296).
ExtractErrors ==
    {"ZstdFailed", "MissingPath", "MemberNotFound", "BadArchive",
     "UnsupportedFormat", "FileNotFound"}

\* C7: after extract_archive fails, whatever the format and the point of
\* failure, the destination holds no partially written file.
C7_NoPartialOutput ==
    \A i \in Units :
       (upc[i] = "failed" /\ uerr[i].kind \in ExtractErrors) =>
          ~(files[Dest(targets[i])].data = "partial" /\ files[Dest(targets[i])].by = i)

\* C8: after a unit has failed, at whatever step, no file it wrote remains
\* at its destination.
C8_FailedUnitLeavesNothing ==
    \A i \in Units :
       upc[i] = "failed" => files[Dest(targets[i])].by # i

\* Unit i's descriptor resolves: its archive is staged, or its platform has
\* a manifest entry that names a provider, a known format and the member
\* that format needs.
Resolves(i) ==
    IF mode = "codex" THEN targets[i] \in staged
    ELSE /\ RG_TARGET_TO_PLATFORM(targets[i]) \in DOMAIN platforms
         /\ EntryOf(i).providers # <<>>
         /\ EntryOf(i).format \in {"zst", "tar.gz", "zip"}
         /\ EntryOf(i).format = "zst" \/ EntryOf(i).path \notin {None, ""}

\* C9: a target without a resolvable descriptor fails alone: when nothing
\* else goes wrong, every requested target whose descriptor resolves is
\* installed, with fetch_rg as with install_codex_binaries.
C9_MissingDescriptorFailsAlone ==
    (Terminated /\ manifestExists /\ Distinct /\ faults = 0) =>
        \A i \in Units :
           Resolves(i) => files[Dest(targets[i])].data = "full"

\* C10: a call with no targets returns the empty list, does not fail and
\* changes nothing on the filesystem (the install root of such a call holds
\* no directory to begin with).
C10_EmptyIsNoOp ==
    (targets = <<>> /\ Terminated) =>
        /\ pc = "returned"
        /\ returned = <<>>
        /\ dirs = {}
        /\ \A p \in DOMAIN files : files[p] = Absent

\* ------------------------------------------- extract_archive (C11, C12, C17)
Recognized == {"zst", "tar.gz", "zip"}

\* extract_archive has ended: it raised, or it returned to its caller.
ExtractEnded(i) == upc[i] \in {"failed", "chmod"}

\* C11: a call of extract_archive with an unrecognized format tag fails with
\* the unsupported-format error and has written nothing on the filesystem:
\* no directory was created and no file was created, modified or removed.
C11_UnsupportedFormatWritesNothing ==
    \A i \in Units :
        (FormatOf(i) \notin Recognized /\ ExtractEnded(i)) =>
            /\ upc[i] = "failed"
            /\ uerr[i].kind = "UnsupportedFormat"
            /\ dirs = dirs0
            /\ files = files0
            /\ touched[i] = {}

\* C12: a call of extract_archive for tar.gz or zip whose member is not an
\* entry of the archive fails with the member-not-found error and leaves no
\* file at dest: the call has written nothing there (nor beside the archive),
\* so dest holds no file unless one was there before the call, untouched.
C12_MemberNotFoundLeavesNoFile ==
    \A i \in Units :
        (FormatOf(i) \in {"tar.gz", "zip"} /\ MemberOf(i) \notin {None, ""}
            /\ ExtractEnded(i) /\ uerr[i].kind = "MemberNotFound") =>
            /\ upc[i] = "failed"
            /\ files[Dest(targets[i])] = files0[Dest(targets[i])]
            /\ files[Dest(targets[i])].data \notin {"partial", "full"}
            /\ files[Scratch(i)] = Absent
            /\ touched[i] = {}

\* A zip call on a fresh dest failed on a member the archive does not hold.
C12_Witness ==
    \E i \in Units :
        /\ FormatOf(i) = "zip"
        /\ uerr[i].kind = "MemberNotFound"
        /\ files0[Dest(targets[i])] = Absent
        /\ files[Dest(targets[i])] = Absent

\* C17: extract_archive enforces the member invariant per format. A tar.gz
\* or zip call with no member (None or empty) fails with the missing-path
\* error before the archive is read and without writing dest or anything
\* else. A zst call never consults the member: whatever the member is, the
\* call returns with the decompressed file at dest when zstd succeeds and
\* fails with zstd's error when it does not, so two calls that differ only in
\* the member have the same outcome.
C17_MemberPerFormat ==
    \A i \in Units :
        ExtractEnded(i) =>
            /\ (FormatOf(i) \in {"tar.gz", "zip"} /\ MemberOf(i) \in {None, ""}) =>
                  /\ upc[i] = "failed"
                  /\ uerr[i].kind = "MissingPath"
                  /\ faults = 0
                  /\ files = files0
                  /\ touched[i] = {}
            /\ FormatOf(i) = "zst" =>
                  \/ /\ upc[i] = "chmod"
                     /\ faults = 0
                     /\ files[Dest(targets[i])] =
                            [data |-> "full", by |-> i, exec |-> FALSE]
                  \/ /\ upc[i] = "failed"
                     /\ faults = 1
                     /\ uerr[i].kind = "ZstdFailed"
                     /\ files[Dest(targets[i])] = files0[Dest(targets[i])]

\* A zip call with an empty member has failed, and the file dest held is
\* still there.
C17_Witness ==
    \E i \in Units :
        /\ FormatOf(i) = "zip"
        /\ MemberOf(i) = ""
        /\ uerr[i].kind = "MissingPath"
        /\ files0[Dest(targets[i])].data = "old"
        /\ files = files0

\* ------------------------------------------------ the single-target install
\* What a successful install of unit i leaves at its destination.
Installed(i) ==
    [data |-> "full", by |-> i, exec |-> ~IsWindowsPerm(mode, targets[i])]

\* The failures that are the environment's: a step of the install did not
\* succeed.
StepFailures ==
    {"DownloadError", "ZstdFailed", "MemberNotFound", "BadArchive", "ChmodFailed"}

\* C13: the install is idempotent with respect to an existing destination.
\* A unit whose descriptor resolves never fails for a reason other than a
\* step that did not succeed (so never because dest exists already, nor
\* because it does not), and a unit that succeeded leaves at dest exactly the
\* newly extracted file, whatever dest held at the call: the state after a
\* second install is the state after the first.
C13_Idempotent ==
    \A i \in Units :
        (Distinct /\ Resolves(i) /\ upc[i] \in {"ok", "failed"}) =>
            /\ upc[i] = "failed" => uerr[i].kind \in StepFailures
            /\ upc[i] = "ok" => files[Dest(targets[i])] = Installed(i)

\* An install over the binary of an earlier install has succeeded.
C13_Witness ==
    \E i \in Units :
        /\ upc[i] = "ok"
        /\ files0[Dest(targets[i])].data = "old"
        /\ files[Dest(targets[i])] = Installed(i)

\* ------------------------------------------------------- isolation of units
\* The files of unit i: its destination and its scratch location.
OwnFiles(i) == {Dest(targets[i]), Scratch(i)}

\* The directories of unit i's target-scoped subtree.
OwnDirs(i) == {<<"vendor", targets[i]>>, DestDir(targets[i])}

\* A step of unit i changes nothing of the orchestrator's and nothing of
\* another unit's: what units share is the filesystem.
SharesOnlyFilesystem(i) ==
    /\ UNCHANGED mainVars
    /\ \A j \in Units \ {i} :
          /\ upc'[j] = upc[j]
          /\ uerr'[j] = uerr[j]
          /\ uret'[j] = uret[j]
          /\ downloads'[j] = downloads[j]
          /\ touched'[j] = touched[j]

\* No two units have written or deleted the same path.
DisjointWrites ==
    \A i, j \in Units : i # j => touched[i] \cap touched[j] = {}

\* C14: for pairwise-distinct targets, units share no mutable state other
\* than the filesystem, each unit creates, deletes and writes only paths
\* inside its own target-scoped subtree and its own scratch location, and no
\* two units write or delete the same path.
C14_UnitsStayInOwnSubtree ==
    [][Distinct =>
          /\ \A i \in Units :
                UnitNext(i) =>
                    /\ SharesOnlyFilesystem(i)
                    /\ touched'[i] \subseteq OwnFiles(i)
                    /\ (dirs' \ dirs) \subseteq OwnDirs(i)
          /\ DisjointWrites']_vars

\* C14 as the code has it: the same, except that a unit which finds the
\* install root missing creates it, on its way to its own subtree.
C14_UnitsStayInOwnSubtreeBelowRoot ==
    [][Distinct =>
          /\ \A i \in Units :
                UnitNext(i) =>
                    /\ SharesOnlyFilesystem(i)
                    /\ touched'[i] \subseteq OwnFiles(i)
                    /\ (dirs' \ dirs) \subseteq OwnDirs(i) \cup {VendorDir}
          /\ DisjointWrites']_vars

\* Two units of distinct targets are running and both have written, into an
\* install root that a unit had to create.
C14_Witness ==
    /\ Distinct
    /\ dirs0 = {}
    /\ mode = "codex"
    /\ VendorDir \in dirs
    /\ \E i, j \in Running : i # j /\ touched[i] # {} /\ touched[j] # {}

\* The failures of a unit that has not obtained its archive.
NoArchiveFailures == {"DownloadError", "NoProviders", "MissingArtifact"}

\* C18: in both installers the destination is removed only after the archive
\* has been obtained. A unit that has deleted or written its destination is
\* past the archive lookup or the download, and a unit that failed because
\* the download failed, the entry lists no provider or the pre-staged archive
\* is missing has left the destination exactly as it was at the call: an
\* earlier binary is still there, unchanged.
C18_DestKeptUntilArchiveObtained ==
    \A i \in Units :
        Distinct =>
            /\ Dest(targets[i]) \in touched[i] =>
                  /\ upc[i] \in {"extract", "move", "zipwrite", "chmod", "ok", "failed"}
                  /\ uerr[i].kind \notin NoArchiveFailures
                  /\ mode = "rg" => downloads[i] = <<1>>
                  /\ mode = "codex" => targets[i] \in staged
            /\ uerr[i].kind \in NoArchiveFailures =>
                  /\ upc[i] = "failed"
                  /\ touched[i] = {}
                  /\ files[Dest(targets[i])] = files0[Dest(targets[i])]

\* A download failed over the binary of an earlier install, which is still
\* in place.
C18_Witness ==
    \E i \in Units :
        /\ uerr[i].kind = "DownloadError"
        /\ files0[Dest(targets[i])].data = "old"
        /\ files[Dest(targets[i])] = files0[Dest(targets[i])]

\* ------------------------------------------------------ name and permission
\* The supported targets: CODEX_TARGETS, which are the targets of the table.
SupportedTargets ==
    {RG_TARGET_PLATFORM_PAIRS[k][1] : k \in 1..Len(RG_TARGET_PLATFORM_PAIRS)}

\* The Windows-class targets: the triples whose operating system is Windows.
WindowsClass(target) ==
    target \in {"x86_64-pc-windows-msvc", "aarch64-pc-windows-msvc"}

\* <binary-name> of the install layout.
ExpectedName(m, target) ==
    IF WindowsClass(target)
    THEN (IF m = "codex" THEN "codex.exe" ELSE "rg.exe")
    ELSE (IF m = "codex" THEN "codex" ELSE "rg")

\* C15: a successful single-target install ends with the destination at
\* <install-root>/<target>/<role>/<binary-name>; for a non-Windows-class
\* target the name has no suffix and the file is executable when the unit
\* returns; for a Windows-class target the name carries .exe and the
\* permission step is skipped. The naming test and the permission test agree,
\* with each other and with the target's class, for every supported target in
\* both installers.
C15_NameAndPermission ==
    /\ \A m \in {"codex", "rg"} : \A t \in SupportedTargets :
          /\ IsWindowsName(m, t) = IsWindowsPerm(m, t)
          /\ IsWindowsName(m, t) = WindowsClass(t)
    /\ \A i \in Units :
          (Distinct /\ upc[i] = "ok") =>
              /\ uret[i] = <<"vendor", targets[i], IF mode = "codex" THEN "codex" ELSE "path",
                             ExpectedName(mode, targets[i])>>
              /\ files[uret[i]].data = "full"
              /\ files[uret[i]].exec = ~WindowsClass(targets[i])

\* One call has installed a Windows-class and a non-Windows-class target.
C15_Witness ==
    \E i, j \in Units :
        /\ upc[i] = "ok" /\ upc[j] = "ok"
        /\ WindowsClass(targets[i]) /\ ~WindowsClass(targets[j])
        /\ uret[i][4] \in {"codex.exe", "rg.exe"} /\ ~files[uret[i]].exec
        /\ uret[j][4] \in {"codex", "rg"} /\ files[uret[j]].exec

\* ------------------------------------------------------------- the download
\* C16: a unit of fetch_rg makes at most one download attempt, to the first
\* provider of its entry; when that download fails the unit has failed with
\* it, having tried no other provider and done nothing further.
C16_OneDownloadFirstProvider ==
    \A i \in Units :
        /\ Len(downloads[i]) <= 1
        /\ \A k \in 1..Len(downloads[i]) : downloads[i][k] = 1
        /\ mode = "codex" => downloads[i] = <<>>
        /\ uerr[i].kind = "DownloadError" =>
              /\ upc[i] = "failed"
              /\ downloads[i] = <<1>>
              /\ touched[i] = {}

\* A unit whose entry lists two providers failed on the download of the
\* first.
C16_Witness ==
    \E i \in Units :
        /\ uerr[i].kind = "DownloadError"
        /\ Len(EntryOf(i).providers) = 2
        /\ downloads[i] = <<1>>

\* --------------------------------------------------------- repeated targets
\* C19: for every list of targets the orchestrators accept, lists that name
\* a target more than once included, no two concurrently running units
\* delete or write the same destination path, and the returned list has one
\* entry per input position.
C19_NoTwoUnitsOnOneDestination ==
    /\ \A i, j \in Running :
          i # j => ~(/\ Dest(targets[i]) = Dest(targets[j])
                     /\ Dest(targets[i]) \in touched[i]
                     /\ Dest(targets[j]) \in touched[j])
    /\ pc = "returned" => Len(returned) = Len(targets)

====
